---- MODULE Spec2Model ----
(***************************************************************************)
(* Model of the tabular engine of data-analysis-app:                       *)
(*   pages/alert.py  analyze             (attrition detector)              *)
(*   pages/sales.py  clean_sheet, compare_years, summarize_by_category,    *)
(*                   extract_mapping, the file slots and the run button    *)
(*   pages/item.py   rule table sort and classify, yearly aggregation,     *)
(*                   year-over-year and pivot                              *)
(*   pages/alert.py  the uploaders, save_file and the roll-over button     *)
(* Customer codes are the normalised four character codes.  Amounts are    *)
(* integers; percentages are kept as scaled integers (share in hundredths  *)
(* of a percent, ratio in tenths of a percent), rounded as the code rounds.*)
(***************************************************************************)
EXTENDS Integers, Sequences, FiniteSets, TLC

VARIABLES
    pc,            \* position of the page's run: "input", "done", "halted"
    \* pages/alert.py
    week1, week2, week3,   \* codes of the three weekly tables (load_weekly_file)
    delete_list,           \* helper sheet 削除依頼
    base_list,             \* helper sheet 取引先リスト, the codes in sheet order
    leave_map,             \* helper sheet 離脱リスト: code -> remark
    rows_normal, rows_leave, df_two, df_three,
    \* pages/sales.py
    prev_sheet_df, curr_sheet_df,            \* raw rows below the header row
    exclude_codes, fix_sales_map, category_map,
    prev_clean, curr_clean, comp_df, summary_df,
    \* pages/item.py
    df_class,      \* rule table, rows in file order, then sorted
    product_name,  \* one cell of the 商品名 column
    classified,    \* the 分類 cell computed for it
    df_data,       \* product rows: 分類 and the cells of the year columns
    year_cols,     \* years of the 個数/金額 column pairs, in file order
    df_all,        \* long table: one row per (分類, 年)
    df_result,     \* pivot table shown as the result
    \* pages/sales.py: extract_mapping
    helper_sheets, \* rows of the sheets 計算修正 and 取引先リスト
    mapping,       \* the maps returned by extract_mapping
    warnings,      \* rows for which st.warning was shown, in order
    \* pages/sales.py: the page
    file_state,    \* st.session_state.state: slot -> "missing", "none", "file"
    prev_top, curr_top,   \* the text rows at the top of the two data sheets
    session_keys,  \* the result keys present in st.session_state
    event,         \* what started the last script run
    fault,         \* the step of the last run that raised, "none" if none
    message,       \* the message the last script run ended with
    displayed,     \* whether the last script run showed the stored tables
    \* pages/alert.py: the page
    slot_state,    \* st.session_state.state: label -> "none" or the label whose
                   \* file uploaded_files/<label>.xlsx the entry's path names
    disk,          \* content of uploaded_files/<label>.xlsx, "none" if absent
    held           \* the file each uploader widget holds, "none" if empty

alertVars == <<week1, week2, week3, delete_list, base_list, leave_map,
               rows_normal, rows_leave, df_two, df_three>>
salesVars == <<prev_sheet_df, curr_sheet_df, exclude_codes, fix_sales_map,
               category_map, prev_clean, curr_clean, comp_df, summary_df>>
itemVars == <<df_class, product_name, classified>>
pivotVars == <<df_data, year_cols, df_all, df_result>>
extractVars == <<helper_sheets, mapping, warnings>>
pageVars == <<file_state, prev_top, curr_top, session_keys, event, fault,
              message, displayed>>
rolloverVars == <<slot_state, disk, held>>
moreVars == <<pivotVars, extractVars, pageVars, rolloverVars>>
vars == <<pc, alertVars, salesVars, itemVars, moreVars>>

----------------------------------------------------------------------------
(* Generic helpers *)

Range(s) == {s[i] : i \in 1..Len(s)}

SeqsUpTo(S, n) == UNION {[1..k -> S] : k \in 0..n}

PartialFns(D, R) == UNION {[d -> R] : d \in SUBSET D}

\* dict.get(key, default)
Get(map, key, default) == IF key \in DOMAIN map THEN map[key] ELSE default

\* every order in which a set can be iterated
Orderings(S) == {s \in [1..Cardinality(S) -> S] : Range(s) = S}

Abs(x) == IF x < 0 THEN -x ELSE x

RECURSIVE SumSeq(_)
SumSeq(s) == IF s = <<>> THEN 0 ELSE Head(s) + SumSeq(Tail(s))

----------------------------------------------------------------------------
(* Idle values of the pages a specification does not exercise *)

AlertIdle ==
    /\ week1 = {} /\ week2 = {} /\ week3 = {}
    /\ delete_list = {} /\ base_list = <<>> /\ leave_map = <<>>
    /\ rows_normal = <<>> /\ rows_leave = <<>>
    /\ df_two = <<>> /\ df_three = <<>>

SalesIdle ==
    /\ prev_sheet_df = <<>> /\ curr_sheet_df = <<>>
    /\ exclude_codes = {} /\ fix_sales_map = <<>> /\ category_map = <<>>
    /\ prev_clean = <<>> /\ curr_clean = <<>>
    /\ comp_df = <<>> /\ summary_df = <<>>

ItemIdle ==
    /\ df_class = <<>> /\ product_name = <<>> /\ classified = ""

NoTable == [columns |-> <<>>, rows |-> <<>>]

PivotIdle ==
    /\ df_data = <<>> /\ year_cols = <<>>
    /\ df_all = <<>> /\ df_result = NoTable

NoSheets == [fix |-> <<>>, cat |-> <<>>]
NoMapping == [fix |-> <<>>, cat |-> <<>>]

ExtractIdle ==
    /\ helper_sheets = NoSheets /\ mapping = NoMapping /\ warnings = <<>>

PageIdle ==
    /\ file_state = <<>> /\ prev_top = <<>> /\ curr_top = <<>>
    /\ session_keys = {} /\ event = "none" /\ fault = "none"
    /\ message = "none" /\ displayed = FALSE

RolloverIdle == slot_state = <<>> /\ disk = <<>> /\ held = <<>>

MoreIdle == PivotIdle /\ ExtractIdle /\ PageIdle /\ RolloverIdle

----------------------------------------------------------------------------
(* pages/alert.py: analyze *)

Codes == {"0001", "0002", "0003"}
Remarks == {"closed"}
MaxMaster == 2

\* set(week['取引先コード']) - set(delete_list)
WeekSet(week, dl) == week \ dl

\* [c for c in set1 if c not in set2 and c not in set3]
TwoWeeksNoneLatestOnly(s1, s2, s3) == {c \in s1 : c \notin s3}
TwoWeeksNone(s1, s2, s3) == {c \in s1 : c \notin s2 /\ c \notin s3}

\* [c for c in base_list['取引先コード'] if c not in all_weeks]
ThreeWeeksNone(bl, all_weeks) == SelectSeq(bl, LAMBDA c : c \notin all_weeks)

\* the loop that splits three_weeks_none on membership in leave_map
RowsNormal(three, lm) ==
    LET keep == SelectSeq(three, LAMBDA c : c \notin DOMAIN lm)
    IN  [i \in 1..Len(keep) |-> [code |-> keep[i], remark |-> ""]]

RowsLeave(three, lm) ==
    LET keep == SelectSeq(three, LAMBDA c : c \in DOMAIN lm)
    IN  [i \in 1..Len(keep) |-> [code |-> keep[i], remark |-> lm[keep[i]]]]

InitAlert ==
    /\ pc = "input"
    /\ week1 \in SUBSET Codes /\ week2 \in SUBSET Codes /\ week3 \in SUBSET Codes
    /\ delete_list \in SUBSET Codes
    /\ base_list \in SeqsUpTo(Codes, MaxMaster)
    /\ leave_map \in PartialFns(Codes, Remarks)
    /\ rows_normal = <<>> /\ rows_leave = <<>>
    /\ df_two = <<>> /\ df_three = <<>>
    /\ SalesIdle /\ ItemIdle /\ MoreIdle

\* The rows of df_two and df_three are kept by code and remark; the name and
\* category columns are looked up by code and select no row.
Analyze ==
    /\ pc = "input"
    /\ LET set1 == WeekSet(week1, delete_list)
           set2 == WeekSet(week2, delete_list)
           set3 == WeekSet(week3, delete_list)
           three == ThreeWeeksNone(base_list, set1 \cup set2 \cup set3)
       IN  /\ \E two \in Orderings(TwoWeeksNone(set1, set2, set3)) : df_two' = two
           /\ rows_normal' = RowsNormal(three, leave_map)
           /\ rows_leave' = RowsLeave(three, leave_map)
           /\ df_three' = RowsNormal(three, leave_map) \o RowsLeave(three, leave_map)
    /\ pc' = "done"
    /\ UNCHANGED <<week1, week2, week3, delete_list, base_list, leave_map>>
    /\ UNCHANGED <<salesVars, itemVars, moreVars>>

NextAlert == Analyze

SpecAlert == InitAlert /\ [][NextAlert]_vars

----------------------------------------------------------------------------
(* Claims about the attrition detector *)

CodesOf(rows) == {rows[i].code : i \in 1..Len(rows)}

Occurrences(s, x) == Cardinality({i \in 1..Len(s) : s[i] = x})

\* C1: no code of the exclusion list appears in the two-period-absent list
\* or in the three-period-absent list (normal or flagged).
C1_ExcludedNeverReported ==
    pc = "done" =>
        \A c \in delete_list : c \notin Range(df_two) /\ c \notin CodesOf(df_three)

\* C2: the normal and flagged parts of the three-period-absent list are
\* disjoint, their union is master - excluded - (week1 \cup week2 \cup week3),
\* and a code is flagged exactly when it is a key of the known-attrition map,
\* carrying that map's remark.
C2_AttritionPartition ==
    pc = "done" =>
        /\ CodesOf(rows_normal) \cap CodesOf(rows_leave) = {}
        /\ CodesOf(rows_normal) \cup CodesOf(rows_leave)
              = (Range(base_list) \ delete_list) \ (week1 \cup week2 \cup week3)
        /\ \A i \in 1..Len(rows_leave) :
              /\ rows_leave[i].code \in DOMAIN leave_map
              /\ rows_leave[i].remark = leave_map[rows_leave[i].code]
        /\ \A i \in 1..Len(rows_normal) : rows_normal[i].code \notin DOMAIN leave_map

\* C3: the two-period-absent list holds exactly the codes of week1 that are
\* not excluded and are in neither week2 nor week3, each exactly once; the
\* master list plays no part in it.
C3_TwoPeriodAbsent ==
    pc = "done" =>
        \A c \in Codes :
            Occurrences(df_two, c) =
                IF c \in week1 /\ c \notin delete_list /\ c \notin week2 /\ c \notin week3
                THEN 1 ELSE 0

\* week1 holds an excluded code, a code seen again in week2 and a code seen
\* in no later week; only the last is reported, and it is not in the master list
C3_Witness ==
    /\ pc = "done"
    /\ week1 = Codes
    /\ Cardinality(delete_list \cap week1) = 1
    /\ Cardinality(week2 \ delete_list) = 1
    /\ Len(df_two) = 1
    /\ df_two[1] \notin Range(base_list)
    /\ df_two[1] \notin week2 \cup week3

----------------------------------------------------------------------------
(* pages/sales.py: clean_sheet, compare_years, summarize_by_category *)

Customers == {"0001", "0002"}
Names == {"A", "B"}
NoName == "NaN"            \* an empty 得意先名 cell
Unclassified == "unclassified"   \* the label 未分類
Categories == {"X"}
Factors == {2}
Thousand == 1000

\* string order of the values used as sort keys
StrOrder == <<"0001", "0002", "A", "B", "X", "unclassified">>
Rank(str) == CHOOSE i \in 1..Len(StrOrder) : StrOrder[i] = str

KeyOf(r) == <<r.code, r.name, r.category>>

KeyLess(a, b) ==
    \/ Rank(a[1]) < Rank(b[1])
    \/ a[1] = b[1] /\ Rank(a[2]) < Rank(b[2])
    \/ a[1] = b[1] /\ a[2] = b[2] /\ Rank(a[3]) < Rank(b[3])

\* the group keys in ascending order (groupby and merge sort their keys)
RECURSIVE SortKeys(_)
SortKeys(S) ==
    IF S = {} THEN <<>>
    ELSE LET m == CHOOSE k \in S : \A o \in S : ~KeyLess(o, k)
         IN  <<m>> \o SortKeys(S \ {m})

RECURSIVE SortStrs(_)
SortStrs(S) ==
    IF S = {} THEN <<>>
    ELSE LET m == CHOOSE k \in S : \A o \in S : Rank(k) <= Rank(o)
         IN  <<m>> \o SortStrs(S \ {m})

\* n / d rounded to the nearest integer, ties to the even one (numpy and
\* Python rounding)
RoundHalfEven(n, d) ==
    LET nn == IF d < 0 THEN -n ELSE n
        dd == IF d < 0 THEN -d ELSE d
        q == nn \div dd
        r == nn - q * dd
    IN  IF 2 * r < dd THEN q
        ELSE IF 2 * r > dd THEN q + 1
        ELSE IF q % 2 = 0 THEN q ELSE q + 1

\* sort_values("純売上額", ascending=False): descending, equal amounts keep
\* their order
InsertDesc(r, sorted) ==
    LET before == SelectSeq(sorted, LAMBDA x : x.sales >= r.sales)
        after == SelectSeq(sorted, LAMBDA x : x.sales < r.sales)
    IN  before \o <<r>> \o after

RECURSIVE SortSalesDesc(_)
SortSalesDesc(s) ==
    IF s = <<>> THEN <<>>
    ELSE InsertDesc(s[Len(s)], SortSalesDesc(SubSeq(s, 1, Len(s) - 1)))

SumField(rows, f) == SumSeq([i \in 1..Len(rows) |-> rows[i][f]])

\* groupby([code, name, category]).agg(sum): one row per key, rows whose name
\* cell is empty belong to no group
GroupByKey(rows) ==
    LET keys == SortKeys({KeyOf(rows[i]) : i \in {j \in 1..Len(rows) : rows[j].name # NoName}})
    IN  [k \in 1..Len(keys) |->
            LET mine == SelectSeq(rows, LAMBDA r : KeyOf(r) = keys[k])
            IN  [code |-> keys[k][1], name |-> keys[k][2], category |-> keys[k][3],
                 sales |-> SumField(mine, "sales"),
                 share |-> SumField(mine, "share")]]

\* share of one raw row in hundredths of a percent:
\* (sales / total_sales * 100).round(2) if total_sales != 0 else 0.0
\* The quotient is taken in two steps of a hundred to stay within the integers.
ShareOf(sales, total_sales) ==
    IF total_sales # 0
    THEN LET s == IF total_sales < 0 THEN -sales ELSE sales
             t == Abs(total_sales)
             q == (s * 100) \div t
             r == s * 100 - q * t
         IN  q * 100 + RoundHalfEven(r * 100, t)
    ELSE 0

CleanSheet(df, ex, fix, cat) ==
    LET kept == SelectSeq(df, LAMBDA r : r.code \notin ex)
        fixed == [i \in 1..Len(kept) |->
                    [kept[i] EXCEPT !.sales = @ * Get(fix, kept[i].code, 1)]]
        total_sales == SumField(fixed, "sales")
        rows == [i \in 1..Len(fixed) |->
                    [code |-> fixed[i].code, name |-> fixed[i].name,
                     category |-> Get(cat, fixed[i].code, Unclassified),
                     sales |-> fixed[i].sales,
                     share |-> ShareOf(fixed[i].sales, total_sales)]]
    IN  SortSalesDesc(GroupByKey(rows))

\* (merged[col] / 1000).round().astype("Int64")
ToThousands(x) == RoundHalfEven(x, Thousand)

\* 前年比(%) in tenths of a percent
RatioNoBaseline(prev, curr) ==
    IF prev # 0 THEN RoundHalfEven(curr * 1000, prev) ELSE 0
Ratio(prev, curr) ==
    IF prev # 0 THEN RoundHalfEven(curr * 1000, prev)
    ELSE IF curr # 0 THEN 1000 ELSE 0

DiffReversed(prev, curr) == prev - curr
Diff(prev, curr) == curr - prev

\* a column of the row of df with this key; the outer merge leaves NaN where
\* the key is missing and fillna(0) makes it 0
Lookup(df, key, f) ==
    LET hit == SelectSeq(df, LAMBDA r : KeyOf(r) = key)
    IN  IF hit = <<>> THEN 0 ELSE hit[1][f]

CompareYears(prev_df, curr_df) ==
    LET keys == SortKeys({KeyOf(prev_df[i]) : i \in 1..Len(prev_df)}
                         \cup {KeyOf(curr_df[i]) : i \in 1..Len(curr_df)})
    IN  [k \in 1..Len(keys) |->
            LET sp == ToThousands(Lookup(prev_df, keys[k], "sales"))
                sc == ToThousands(Lookup(curr_df, keys[k], "sales"))
            IN  [code |-> keys[k][1], name |-> keys[k][2], category |-> keys[k][3],
                 sales_curr |-> sc, share_curr |-> Lookup(curr_df, keys[k], "share"),
                 sales_prev |-> sp, share_prev |-> Lookup(prev_df, keys[k], "share"),
                 ratio |-> Ratio(sp, sc), diff |-> Diff(sp, sc)]]

SummaryRatioAveraged(mine) == SumField(mine, "ratio") \div Len(mine)
SummaryRatio(mine) == Ratio(SumField(mine, "sales_prev"), SumField(mine, "sales_curr"))

SummarizeByCategory(comp) ==
    LET cats == SortStrs({comp[i].category : i \in 1..Len(comp)})
    IN  [k \in 1..Len(cats) |->
            LET mine == SelectSeq(comp, LAMBDA r : r.category = cats[k])
            IN  [category |-> cats[k],
                 sales_prev |-> SumField(mine, "sales_prev"),
                 sales_curr |-> SumField(mine, "sales_curr"),
                 diff |-> SumField(mine, "diff"),
                 ratio |-> SummaryRatio(mine)]]

\* The raw rows below the header row: a normalised code, a name cell that may
\* be empty, and a numeric amount
RawRows(names, amounts) == [code : Customers, name : names, sales : amounts]

(* One call of clean_sheet on a raw table *)

MaxRows == 3
BuildSales == {-1000, 1000, 2000}

InitBuild ==
    /\ pc = "input"
    /\ prev_sheet_df \in SeqsUpTo(RawRows(Names \cup {NoName}, BuildSales), MaxRows)
    /\ curr_sheet_df = <<>>
    /\ exclude_codes \in SUBSET Customers
    /\ fix_sales_map \in PartialFns(Customers, Factors)
    /\ category_map \in PartialFns(Customers, Categories)
    /\ prev_clean = <<>> /\ curr_clean = <<>>
    /\ comp_df = <<>> /\ summary_df = <<>>
    /\ AlertIdle /\ ItemIdle /\ MoreIdle

CleanSheetCall ==
    /\ pc = "input"
    /\ prev_clean' = CleanSheet(prev_sheet_df, exclude_codes, fix_sales_map, category_map)
    /\ pc' = "done"
    /\ UNCHANGED <<prev_sheet_df, curr_sheet_df, exclude_codes, fix_sales_map,
                   category_map, curr_clean, comp_df, summary_df>>
    /\ UNCHANGED <<alertVars, itemVars, moreVars>>

NextBuild == CleanSheetCall

SpecBuild == InitBuild /\ [][NextBuild]_vars

(* The analysis run of the sales page on two raw tables *)

MaxCmpRows == 3
CmpSales == {500, 1500, 500000}

InitSales ==
    /\ pc = "input"
    /\ \E n \in 0..MaxCmpRows : \E k \in 0..n :
          /\ prev_sheet_df \in [1..k -> RawRows(Names, CmpSales)]
          /\ curr_sheet_df \in [1..(n - k) -> RawRows(Names, CmpSales)]
    /\ exclude_codes = {}
    /\ fix_sales_map = <<>>
    /\ category_map \in PartialFns({"0001"}, Categories)
    /\ prev_clean = <<>> /\ curr_clean = <<>>
    /\ comp_df = <<>> /\ summary_df = <<>>
    /\ AlertIdle /\ ItemIdle /\ MoreIdle

\* The handler of the 分析実行 button once the three files are read: an empty
\* snapshot stops the run before anything is stored.
AnalysisRun ==
    /\ pc = "input"
    /\ \E p \in {CleanSheet(prev_sheet_df, exclude_codes, fix_sales_map, category_map)} :
       \E c \in {CleanSheet(curr_sheet_df, exclude_codes, fix_sales_map, category_map)} :
          IF p = <<>> \/ c = <<>>
          THEN /\ pc' = "halted"
               /\ UNCHANGED <<prev_clean, curr_clean, comp_df, summary_df>>
          ELSE /\ prev_clean' = p
               /\ curr_clean' = c
               /\ comp_df' = CompareYears(p, c)
               /\ summary_df' = SummarizeByCategory(comp_df')
               /\ pc' = "done"
    /\ UNCHANGED <<prev_sheet_df, curr_sheet_df, exclude_codes, fix_sales_map, category_map>>
    /\ UNCHANGED <<alertVars, itemVars, moreVars>>

NextSales == AnalysisRun

SpecSales == InitSales /\ [][NextSales]_vars

----------------------------------------------------------------------------
(* Claims about the snapshot builder, the reconciler and the aggregator *)

RowsWithCode(df, c) == SelectSeq(df, LAMBDA r : r.code = c)

HasKey(df, key) == \E i \in 1..Len(df) : KeyOf(df[i]) = key

\* x is n / d rounded to a nearest integer
IsNearest(x, n, d) == 2 * Abs(x * d - n) <= Abs(d)

\* C4: compare yields exactly one row per code of the union of the codes of
\* the two snapshots: as many rows as codes, none dropped, none twice.
C4_OneRowPerId ==
    pc = "done" =>
        LET ids == {prev_clean[i].code : i \in 1..Len(prev_clean)}
                   \cup {curr_clean[i].code : i \in 1..Len(curr_clean)}
        IN  /\ Len(comp_df) = Cardinality(ids)
            /\ \A c \in ids : Len(RowsWithCode(comp_df, c)) = 1

\* the parts of C5 that do not concern the ratio: an absent side is 0, a
\* present side is the snapshot amount / 1000 rounded, diff = curr - prev
RowAmountsOk(r) ==
    /\ ~HasKey(prev_clean, KeyOf(r)) => r.sales_prev = 0
    /\ ~HasKey(curr_clean, KeyOf(r)) => r.sales_curr = 0
    /\ \A i \in 1..Len(prev_clean) :
          KeyOf(prev_clean[i]) = KeyOf(r) =>
              IsNearest(r.sales_prev, prev_clean[i].sales, Thousand)
    /\ \A i \in 1..Len(curr_clean) :
          KeyOf(curr_clean[i]) = KeyOf(r) =>
              IsNearest(r.sales_curr, curr_clean[i].sales, Thousand)
    /\ r.diff = r.sales_curr - r.sales_prev

\* the zero-baseline convention, in tenths of a percent
ZeroBaselineOk(prev, curr, ratio) ==
    /\ (prev = 0 /\ curr # 0) => ratio = 1000
    /\ (prev = 0 /\ curr = 0) => ratio = 0

C6_ZeroBaselineRatio ==
    pc = "done" =>
        \A i \in 1..Len(comp_df) :
            /\ (comp_df[i].sales_prev = 0 /\ comp_df[i].sales_curr = 500)
                   => comp_df[i].ratio = 1000
            /\ (comp_df[i].sales_prev = 0 /\ comp_df[i].sales_curr = 0)
                   => comp_df[i].ratio = 0

\* one customer is new this period with 500 (thousands), another had an
\* amount last period that rounds to 0 and none this period
C6_Witness ==
    /\ pc = "done"
    /\ \E i \in 1..Len(comp_df) :
          /\ comp_df[i].sales_prev = 0 /\ comp_df[i].sales_curr = 500
          /\ ~HasKey(prev_clean, KeyOf(comp_df[i]))
    /\ \E i \in 1..Len(comp_df) :
          /\ comp_df[i].sales_prev = 0 /\ comp_df[i].sales_curr = 0
          /\ HasKey(prev_clean, KeyOf(comp_df[i]))

\* the raw rows clean_sheet keeps for a code, with their corrected amounts
CorrectedOf(c) ==
    LET raws == SelectSeq(prev_sheet_df, LAMBDA r : r.code = c /\ c \notin exclude_codes)
    IN  [i \in 1..Len(raws) |-> raws[i].sales * Get(fix_sales_map, c, 1)]

\* C7: in a snapshot every code occurs in at most one row, whose amount is
\* the sum of the corrected amounts of all raw rows with that code and whose
\* name is the first raw row's, also when raw rows of one code differ in name.
C7_SnapshotUniqueIds ==
    pc = "done" =>
        \A i \in 1..Len(prev_clean) :
            LET r == prev_clean[i]
            IN  /\ Len(RowsWithCode(prev_clean, r.code)) = 1
                /\ r.sales = SumSeq(CorrectedOf(r.code))
                /\ r.name = RowsWithCode(prev_sheet_df, r.code)[1].name

\* C8: in a snapshot whose total amount is > 0 the shares sum to 100.0 up to
\* the rounding of the rows (half a hundredth each), and in one whose total
\* is 0 every share is 0.0.
C8_SharesSumTo100 ==
    pc = "done" =>
        LET total == SumField(prev_clean, "sales")
            n == Len(SelectSeq(prev_sheet_df, LAMBDA r : r.code \notin exclude_codes))
        IN  /\ total > 0 => 2 * Abs(SumField(prev_clean, "share") - 10000) <= n
            /\ total = 0 => \A i \in 1..Len(prev_clean) : prev_clean[i].share = 0

RowsOfCategory(cat) == SelectSeq(comp_df, LAMBDA r : r.category = cat)

\* C9: the category summary has one row per category of the comparison rows;
\* its prior, curr and delta are the sums over the category's rows, so delta
\* = summed curr - summed prior; its ratio_pct is taken from the summed prior
\* and curr (to one decimal) with the zero-baseline convention.
C9_CategorySummary ==
    pc = "done" =>
        /\ {summary_df[k].category : k \in 1..Len(summary_df)}
              = {comp_df[i].category : i \in 1..Len(comp_df)}
        /\ \A k \in 1..Len(summary_df) :
              LET s == summary_df[k]
                  mine == RowsOfCategory(s.category)
              IN  /\ \A j \in 1..Len(summary_df) : summary_df[j].category = s.category => j = k
                  /\ s.sales_prev = SumField(mine, "sales_prev")
                  /\ s.sales_curr = SumField(mine, "sales_curr")
                  /\ s.diff = SumField(mine, "diff")
                  /\ s.diff = s.sales_curr - s.sales_prev
                  /\ ZeroBaselineOk(s.sales_prev, s.sales_curr, s.ratio)
                  /\ s.sales_prev # 0 => IsNearest(s.ratio, 1000 * s.sales_curr, s.sales_prev)

\* a category of two comparison rows whose ratio is neither the sum nor the
\* mean of the two rows' ratios
C9_Witness ==
    /\ pc = "done"
    /\ \E k \in 1..Len(summary_df) :
          LET s == summary_df[k]
              mine == RowsOfCategory(s.category)
          IN  /\ Len(mine) = 2
              /\ s.sales_prev # 0
              /\ s.ratio # SumField(mine, "ratio")
              /\ 2 * s.ratio # SumField(mine, "ratio")

----------------------------------------------------------------------------
(* pages/item.py: the rule table sort and classify *)

\* Text cells are sequences of characters.  Sep stands for the keyword
\* separator '・' and Maru for the priority mark '〇'.
Sep == "."
Maru == "O"
NA == <<"NaN">>            \* an empty (null) cell

KeywordCells == { <<"x">>,                   \* x
                  <<"x", "y">>,              \* xy
                  <<"y", Sep, " ", "x">>,    \* y・ x
                  <<"z", Sep>> }             \* z・  (its second keyword is empty)
PriorityCells == { <<Maru>>, <<>> }
RuleCategories == {"A", "B", "C"}
ProductNames == { NA, <<"x", "-">>, <<"x", "y">>, <<"y">>, <<"w">> }
MaxRules == 2

\* str.strip()
RECURSIVE LStrip(_)
LStrip(t) == IF t # <<>> /\ Head(t) = " " THEN LStrip(Tail(t)) ELSE t

RECURSIVE RStrip(_)
RStrip(t) ==
    IF t # <<>> /\ t[Len(t)] = " " THEN RStrip(SubSeq(t, 1, Len(t) - 1)) ELSE t

Strip(t) == RStrip(LStrip(t))

\* str.split('・'): the pieces between the separators, empty ones included
RECURSIVE Split(_)
Split(t) ==
    IF \A i \in 1..Len(t) : t[i] # Sep THEN <<t>>
    ELSE LET i == CHOOSE k \in 1..Len(t) : t[k] = Sep /\ \A j \in 1..(k - 1) : t[j] # Sep
         IN  <<SubSeq(t, 1, i - 1)>> \o Split(SubSeq(t, i + 1, Len(t)))

\* k in name
IsSubstring(k, name) ==
    \E i \in 0..(Len(name) - Len(k)) : SubSeq(name, i + 1, i + Len(k)) = k

\* 優先フラグ: 1 if str(x).strip() == '〇' else 0
PriorityFlag(cell) == IF Strip(cell) = <<Maru>> THEN 1 ELSE 0

\* キーワード長: sum(len(k.strip()) for k in str(x).split('・'))
KeywordLength(cell) ==
    LET ks == Split(cell)
    IN  SumSeq([i \in 1..Len(ks) |-> Len(Strip(ks[i]))])

\* any(k.strip() in str(name) for k in keywords)
RuleMatches(cell, name) ==
    LET ks == Split(cell)
    IN  \E i \in 1..Len(ks) : IsSubstring(Strip(ks[i]), name)

WithSortColumns(r) ==
    [category |-> r.category, keywords |-> r.keywords, priority |-> r.priority,
     flag |-> PriorityFlag(r.priority), kwlen |-> KeywordLength(r.keywords)]

\* a sorts strictly before b under ascending=[False, False]
RuleBefore(a, b) == a.flag > b.flag \/ (a.flag = b.flag /\ a.kwlen > b.kwlen)

LengthBefore(a, b) == a.kwlen > b.kwlen

\* sort_values(['優先フラグ', 'キーワード長'], ascending=[False, False]): rows
\* with equal keys keep their order
RECURSIVE SortRulesByLengthOnly(_)
SortRulesByLengthOnly(rows) ==
    IF rows = <<>> THEN <<>>
    ELSE LET r == rows[Len(rows)]
             sorted == SortRulesByLengthOnly(SubSeq(rows, 1, Len(rows) - 1))
         IN  SelectSeq(sorted, LAMBDA x : ~LengthBefore(r, x)) \o <<r>>
                 \o SelectSeq(sorted, LAMBDA x : LengthBefore(r, x))

RECURSIVE SortRules(_)
SortRules(rows) ==
    IF rows = <<>> THEN <<>>
    ELSE LET r == rows[Len(rows)]
             sorted == SortRules(SubSeq(rows, 1, Len(rows) - 1))
         IN  SelectSeq(sorted, LAMBDA x : ~RuleBefore(r, x)) \o <<r>>
                 \o SelectSeq(sorted, LAMBDA x : RuleBefore(r, x))

RECURSIVE Classify(_, _)
Classify(name, rules) ==
    IF name = NA THEN Unclassified
    ELSE IF rules = <<>> THEN Unclassified
    ELSE IF RuleMatches(Head(rules).keywords, name) THEN Head(rules).category
    ELSE Classify(name, Tail(rules))

InitItem ==
    /\ pc = "input"
    /\ df_class \in SeqsUpTo([category : RuleCategories, keywords : KeywordCells,
                              priority : PriorityCells], MaxRules)
    /\ product_name \in ProductNames
    /\ classified = ""
    /\ AlertIdle /\ SalesIdle /\ MoreIdle

\* The 集計実行 handler up to the 分類 column, for one cell of 商品名
ClassifyRun ==
    /\ pc = "input"
    /\ df_class' = SortRules([i \in 1..Len(df_class) |-> WithSortColumns(df_class[i])])
    /\ classified' = Classify(product_name, df_class')
    /\ pc' = "done"
    /\ UNCHANGED product_name
    /\ UNCHANGED <<alertVars, salesVars, moreVars>>

NextItem == ClassifyRun

SpecItem == InitItem /\ [][NextItem]_vars

----------------------------------------------------------------------------
(* Claims about the classifier *)

MatchingRules == {i \in 1..Len(df_class) : RuleMatches(df_class[i].keywords, product_name)}

\* rule i comes strictly before rule j in the precedence order: priority
\* first, then the longer total keyword length
Precedes(i, j) ==
    LET pi == PriorityFlag(df_class[i].priority)
        pj == PriorityFlag(df_class[j].priority)
    IN  \/ pi > pj
        \/ pi = pj /\ KeywordLength(df_class[i].keywords) > KeywordLength(df_class[j].keywords)

\* C10: classify returns the category of a matching rule that no other
\* matching rule precedes in the order (priority descending, total keyword
\* length descending), so a priority rule beats a non-priority one whatever
\* the keyword lengths; with no matching rule or a null name it returns 未分類.
C10_ClassifyPrecedence ==
    pc = "done" =>
        IF product_name = NA \/ MatchingRules = {}
        THEN classified = Unclassified
        ELSE \E i \in MatchingRules :
                /\ classified = df_class[i].category
                /\ \A j \in MatchingRules : ~Precedes(j, i)

\* a priority rule with the shorter keyword wins over a matching non-priority
\* rule of another category with the longer keyword
C10_Witness ==
    /\ pc = "done"
    /\ \E i \in MatchingRules : \E j \in MatchingRules :
          /\ PriorityFlag(df_class[i].priority) = 1
          /\ PriorityFlag(df_class[j].priority) = 0
          /\ KeywordLength(df_class[i].keywords) < KeywordLength(df_class[j].keywords)
          /\ df_class[i].category # df_class[j].category
          /\ classified = df_class[i].category

\* the rule rows of df_class taken in the order given by a permutation of
\* their positions
Reordered(perm) == [i \in 1..Len(df_class) |-> df_class[perm[i]]]

\* C11: for a fixed set of rules and a name the classification is the same
\* for every order of the rule rows, also when two matching rules of
\* different categories have equal sort keys.
C11_RowOrderIndependent ==
    pc = "done" =>
        \A perm \in Orderings(1..Len(df_class)) :
            Classify(product_name, SortRules(Reordered(perm))) = classified

----------------------------------------------------------------------------
(* pages/item.py: yearly records, aggregation, year-over-year, pivot *)

NoCategory == "NaN"        \* a null 分類 (the matching rule has no 分類)
RowCategories == {"A", "B", NoCategory}
\* a 個数 cell and the 金額 cell beside it; <<>> is a cell that is empty or
\* not a number
CellPairs == {[count |-> <<>>, amount |-> <<>>],
              [count |-> <<1>>, amount |-> <<5>>],
              [count |-> <<2>>, amount |-> <<80>>]}
\* the years of the (\d{4})年\d+月_個数 columns that have a 金額 column
YearColumnLayouts == {<<>>, <<2024>>, <<2022, 2024>>, <<2024, 2022>>,
                      <<2023, 2024>>, <<2024, 2024>>}
MaxProducts == 2
Kinds == <<"count", "amount", "yoy">>   \* 個数, 金額, 金額_前年比

\* pd.to_numeric(..., errors='coerce').fillna(0)
ToNumeric(cell) == IF cell = <<>> THEN 0 ELSE cell[1]

\* a variant of the next definition that leaves out the rows whose 金額
\* cell is empty instead of counting them as 0
YearRecordsDropEmpty(data, cols, j) ==
    LET full == SelectSeq(data, LAMBDA d : d.cells[j].amount /= <<>>)
    IN  [i \in 1..Len(full) |->
            [category |-> full[i].category, year |-> cols[j],
             count |-> ToNumeric(full[i].cells[j].count),
             amount |-> ToNumeric(full[i].cells[j].amount)]]

\* temp: every product row with the cells of one column pair and its year
YearRecords(data, cols, j) ==
    [i \in 1..Len(data) |->
        [category |-> data[i].category, year |-> cols[j],
         count |-> ToNumeric(data[i].cells[j].count),
         amount |-> ToNumeric(data[i].cells[j].amount)]]

\* pd.concat(records)
RECURSIVE ConcatRecords(_, _, _)
ConcatRecords(data, cols, j) ==
    IF j > Len(cols) THEN <<>>
    ELSE YearRecords(data, cols, j) \o ConcatRecords(data, cols, j + 1)

CatYearLess(a, b) ==
    \/ Rank(a[1]) < Rank(b[1])
    \/ a[1] = b[1] /\ a[2] < b[2]

RECURSIVE SortCatYear(_)
SortCatYear(S) ==
    IF S = {} THEN <<>>
    ELSE LET m == CHOOSE k \in S : \A o \in S : ~CatYearLess(o, k)
         IN  <<m>> \o SortCatYear(S \ {m})

RECURSIVE SortYears(_)
SortYears(S) ==
    IF S = {} THEN <<>>
    ELSE LET m == CHOOSE y \in S : \A o \in S : y <= o
         IN  <<m>> \o SortYears(S \ {m})

Reverse(s) == [i \in 1..Len(s) |-> s[Len(s) + 1 - i]]

\* dropna(subset=['分類']).groupby(['分類', '年']).sum().reset_index()
GroupByCategoryYear(records) ==
    LET kept == SelectSeq(records, LAMBDA r : r.category /= NoCategory)
        keys == SortCatYear({<<r.category, r.year>> : r \in Range(kept)})
        of(k) == SelectSeq(kept, LAMBDA r : r.category = k[1] /\ r.year = k[2])
    IN  [i \in 1..Len(keys) |->
            [category |-> keys[i][1], year |-> keys[i][2],
             count |-> SumField(of(keys[i]), "count"),
             amount |-> SumField(of(keys[i]), "amount")]]

\* a variant of the next definition that takes the row above, whatever its 分類
PrevAmountAnyCategory(rows, i) ==
    IF i > 1 THEN <<rows[i - 1].amount>> ELSE <<>>

\* groupby('分類')['金額'].shift(1): the 金額 of the row before within the
\* same 分類, <<>> when there is none
PrevAmount(rows, i) ==
    LET prior == {k \in 1..(i - 1) : rows[k].category = rows[i].category}
    IN  IF prior = {} THEN <<>>
        ELSE <<rows[CHOOSE k \in prior : \A o \in prior : o <= k].amount>>

\* f"{x:.1f}%" of the number of tenths t, for t >= 0
FormatPct(t) == ToString(t \div 10) \o "." \o ToString(t % 10) \o "%"

\* the 金額_前年比 text of one row
YoY(amount, prev) ==
    IF prev /= <<>> /\ prev[1] /= 0
    THEN FormatPct(RoundHalfEven(amount * 1000, prev[1]))
    ELSE IF amount /= 0 THEN FormatPct(1000) ELSE "0.0%"

WithYoY(rows) ==
    [i \in 1..Len(rows) |->
        [category |-> rows[i].category, year |-> rows[i].year,
         count |-> rows[i].count, amount |-> rows[i].amount,
         yoy |-> YoY(rows[i].amount, PrevAmount(rows, i))]]

\* df.pivot(index='分類', columns='年', values=column): the cell of one 分類
\* and year, <<>> (null) when the long table has no such row
PivotCell(df, c, y, column) ==
    LET m == {k \in 1..Len(df) : df[k].category = c /\ df[k].year = y}
    IN  IF m = {} THEN <<>> ELSE <<df[CHOOSE k \in m : TRUE][column]>>

\* the fill of one cell of a column: '' becomes '100.0%' in a 前年比 column,
\* null becomes 0 in the other columns
FillCell(col, cell) ==
    IF col[2] = "yoy"
    THEN IF cell = <<"">> THEN <<"100.0%">> ELSE cell
    ELSE IF cell = <<>> THEN <<0>> ELSE cell

\* col_order: the columns of the years in descending order, three per year
ColOrder(df) ==
    LET all_years == Reverse(SortYears({df[k].year : k \in 1..Len(df)}))
    IN  [n \in 1..(3 * Len(all_years)) |->
            <<all_years[((n - 1) \div 3) + 1], Kinds[((n - 1) % 3) + 1]>>]

\* the three pivots side by side, filled, with the columns in col_order
Pivot(df) ==
    LET cats == SortStrs({df[k].category : k \in 1..Len(df)})
        columns == ColOrder(df)
    IN  [columns |-> columns,
         rows |-> [n \in 1..Len(cats) |->
                     [category |-> cats[n],
                      cell |-> [col \in Range(columns) |->
                                  FillCell(col, PivotCell(df, cats[n], col[1], col[2]))]]]]

ProductRows(cols) ==
    [category : RowCategories, cells : [1..Len(cols) -> CellPairs]]

InitPivot ==
    /\ pc = "input"
    /\ year_cols \in YearColumnLayouts
    /\ df_data \in SeqsUpTo(ProductRows(year_cols), MaxProducts)
    /\ df_all = <<>> /\ df_result = NoTable
    /\ AlertIdle /\ SalesIdle /\ ItemIdle /\ ExtractIdle /\ PageIdle /\ RolloverIdle

\* the run from the yearly records to the result table
PivotRun ==
    /\ pc = "input"
    /\ IF year_cols = <<>>
       THEN /\ pc' = "halted"
            /\ UNCHANGED <<df_all, df_result>>
       ELSE \E grouped \in {GroupByCategoryYear(ConcatRecords(df_data, year_cols, 1))} :
               IF grouped = <<>>
               THEN /\ pc' = "halted"
                    /\ df_all' = grouped
                    /\ UNCHANGED df_result
               ELSE /\ df_all' = WithYoY(grouped)
                    /\ df_result' = Pivot(df_all')
                    /\ pc' = "done"
    /\ UNCHANGED <<df_data, year_cols>>
    /\ UNCHANGED <<alertVars, salesVars, itemVars, extractVars, pageVars, rolloverVars>>

NextPivot == PivotRun

SpecPivot == InitPivot /\ [][NextPivot]_vars

\* the long-table row of a 分類 and a year
LongRow(c, y) ==
    df_all[CHOOSE k \in 1..Len(df_all) : df_all[k].category = c /\ df_all[k].year = y]

\* the years before y in which the 分類 c has a row
EarlierYears(c, y) ==
    {df_all[k].year : k \in {n \in 1..Len(df_all) :
                                df_all[n].category = c /\ df_all[n].year < y}}

HasData(c, y) ==
    \E i \in 1..Len(df_data) : \E j \in 1..Len(year_cols) :
        /\ df_data[i].category = c /\ year_cols[j] = y
        /\ df_data[i].cells[j].amount /= <<>>

HasLongRow(c, y) ==
    \E k \in 1..Len(df_all) : df_all[k].category = c /\ df_all[k].year = y

----------------------------------------------------------------------------
(* pages/sales.py: extract_mapping *)

\* a cell of a helper sheet: a number, a text that is not a number, an empty
\* cell (NaN) or a date
HelperCells == {[kind |-> "num", val |-> 1], [kind |-> "num", val |-> 2],
                [kind |-> "text", val |-> 0], [kind |-> "empty", val |-> 0],
                [kind |-> "date", val |-> 0]}
NaNFactor == [kind |-> "nan", val |-> 0]
MaxHelperRows == 2

\* str(n).zfill(4)
ZFill4(n) ==
    IF n < 10 THEN "000" \o ToString(n)
    ELSE IF n < 100 THEN "00" \o ToString(n)
    ELSE IF n < 1000 THEN "0" \o ToString(n)
    ELSE ToString(n)

\* int(row[0]): "ok", or the exception raised
IntOutcome(cell) ==
    CASE cell.kind = "num" -> "ok"
      [] cell.kind = "text" -> "ValueError"
      [] cell.kind = "empty" -> "ValueError"     \* int(nan)
      [] cell.kind = "date" -> "TypeError"

\* float(row[1]): "ok", or the exception raised; float(nan) is nan
FloatOutcome(cell) ==
    CASE cell.kind = "num" -> "ok"
      [] cell.kind = "text" -> "ValueError"
      [] cell.kind = "empty" -> "ok"
      [] cell.kind = "date" -> "TypeError"

FloatOf(cell) == IF cell.kind = "empty" THEN NaNFactor ELSE cell

\* str(row[2]).strip()
StrOf(cell) ==
    CASE cell.kind = "num" -> ToString(cell.val)
      [] cell.kind = "text" -> "text"
      [] cell.kind = "empty" -> "nan"
      [] cell.kind = "date" -> "date"

\* dropna(how="all")
DropAllEmpty(rows) ==
    SelectSeq(rows, LAMBDA r : r.code.kind /= "empty" \/ r.value.kind /= "empty")

\* map[key] = value
Update(map, key, value) ==
    [k \in DOMAIN map \cup {key} |-> IF k = key THEN value ELSE map[k]]

\* the 計算修正 loop, from row i on; acc is what the loop leaves behind: the
\* map, the warned rows, and whether an exception that is not a ValueError
\* left the loop
RECURSIVE FixLoop(_, _, _)
FixLoop(rows, i, acc) ==
    IF i > Len(rows) THEN acc
    ELSE LET c == IntOutcome(rows[i].code)
             f == FloatOutcome(rows[i].value)
         IN  IF c = "TypeError" \/ (c = "ok" /\ f = "TypeError")
             THEN [acc EXCEPT !.raised = TRUE]
             ELSE IF c = "ValueError" \/ f = "ValueError"
             THEN FixLoop(rows, i + 1, [acc EXCEPT !.warned = Append(@, rows[i])])
             ELSE FixLoop(rows, i + 1,
                          [acc EXCEPT !.map = Update(@, ZFill4(rows[i].code.val),
                                                     FloatOf(rows[i].value))])

\* the 取引先リスト loop, from row i on
RECURSIVE CategoryLoop(_, _, _)
CategoryLoop(rows, i, acc) ==
    IF i > Len(rows) THEN acc
    ELSE LET c == IntOutcome(rows[i].code)
         IN  IF c = "TypeError" THEN [acc EXCEPT !.raised = TRUE]
             ELSE IF c = "ValueError"
             THEN CategoryLoop(rows, i + 1, [acc EXCEPT !.warned = Append(@, rows[i])])
             ELSE CategoryLoop(rows, i + 1,
                               [acc EXCEPT !.map = Update(@, ZFill4(rows[i].code.val),
                                                          StrOf(rows[i].value))])

HelperRows == [code : HelperCells, value : HelperCells]

\* the helper file holds the sheet 計算修正 or the sheet 取引先リスト
InitExtract ==
    /\ pc = "input"
    /\ \E rows \in SeqsUpTo(HelperRows, MaxHelperRows) :
          \/ helper_sheets = [fix |-> rows, cat |-> <<>>]
          \/ helper_sheets = [fix |-> <<>>, cat |-> rows]
    /\ mapping = NoMapping /\ warnings = <<>>
    /\ AlertIdle /\ SalesIdle /\ ItemIdle /\ PivotIdle /\ PageIdle /\ RolloverIdle

ExtractMapping ==
    /\ pc = "input"
    /\ LET start == [map |-> <<>>, warned |-> <<>>, raised |-> FALSE]
           fix == FixLoop(DropAllEmpty(helper_sheets.fix), 1, start)
           cat == CategoryLoop(DropAllEmpty(helper_sheets.cat), 1, start)
       IN  IF fix.raised
           THEN /\ pc' = "failed"
                /\ warnings' = fix.warned
                /\ UNCHANGED mapping
           ELSE IF cat.raised
           THEN /\ pc' = "failed"
                /\ warnings' = fix.warned \o cat.warned
                /\ UNCHANGED mapping
           ELSE /\ pc' = "done"
                /\ warnings' = fix.warned \o cat.warned
                /\ mapping' = [fix |-> fix.map, cat |-> cat.map]
    /\ UNCHANGED helper_sheets
    /\ UNCHANGED <<alertVars, salesVars, itemVars, pivotVars, pageVars, rolloverVars>>

NextExtract == ExtractMapping

SpecExtract == InitExtract /\ [][NextExtract]_vars

\* a row of 計算修正 with a numeric code and a numeric factor
WellFormedFix(r) == r.code.kind = "num" /\ r.value.kind = "num"

\* a row of 取引先リスト with a numeric code
WellFormedCat(r) == r.code.kind = "num"

Blank(r) == r.code.kind = "empty" /\ r.value.kind = "empty"

\* the rows of a sheet that the map should hold: the last well-formed row
\* of every code
ExpectedMap(rows, WellFormed(_)) ==
    LET good == SelectSeq(rows, WellFormed)
        last(k) == CHOOSE i \in 1..Len(good) :
                      /\ ZFill4(good[i].code.val) = k
                      /\ \A j \in (i + 1)..Len(good) : ZFill4(good[j].code.val) /= k
    IN  [k \in {ZFill4(good[i].code.val) : i \in 1..Len(good)} |-> good[last(k)].value]

\* C15: a malformed row of a reference sheet (code not numeric or empty,
\* factor not numeric or empty) is skipped alone with a warning, every
\* well-formed row is in the result, and no row ends the extraction.
C15_MalformedRowSkipped ==
    pc /= "input" =>
        /\ pc = "done"
        /\ mapping.fix = ExpectedMap(helper_sheets.fix, WellFormedFix)
        /\ DOMAIN mapping.cat
              = DOMAIN ExpectedMap(helper_sheets.cat, WellFormedCat)
        /\ warnings = SelectSeq(helper_sheets.fix,
                                LAMBDA r : ~WellFormedFix(r) /\ ~Blank(r))
                      \o SelectSeq(helper_sheets.cat,
                                   LAMBDA r : ~WellFormedCat(r) /\ ~Blank(r))

----------------------------------------------------------------------------
(* pages/sales.py: the page: file slots, the run button, the result display *)

Slots == {"prev_file", "curr_file", "helper_file"}

\* the column names 得意先コード, 得意先名, 純売上額
RequiredColumns == {"code", "name", "sales"}

\* the text rows above the data rows of a sheet: titles and the header row.
\* "code list" stands for a title that contains the text 得意先コード
TopLayouts == { <<>>,
                << <<"title">> >>,
                << <<"title">>, <<"code", "name", "sales">> >>,
                << <<"code", "name", "memo">> >>,
                << <<"code list">>, <<"code", "name", "sales">> >> }

\* the data rows of an uploaded sheet
PageData == { << [code |-> "0001", name |-> "A", sales |-> 1500] >>,
              << [code |-> "0001", name |-> "A", sales |-> 500000],
                 [code |-> "0002", name |-> "B", sales |-> 1500] >> }

\* str.contains("得意先コード") on a cell
ContainsCodeHeader(cell) == cell \in {"code", "code list"}

\* header_idx: the rows with a cell that contains 得意先コード
HeaderIdx(top) ==
    {i \in 1..Len(top) : \E cell \in Range(top[i]) : ContainsCodeHeader(cell)}

\* a variant of the next definition without the check of the required columns
CleanSheetFromAnyHeader(top, data, ex, fix, cat) ==
    IF HeaderIdx(top) = {} THEN <<>>
    ELSE CleanSheet(data, ex, fix, cat)

\* clean_sheet on a whole sheet: empty when no header row is found or a
\* required column is missing, else the rows below the header row cleaned.
\* No layout has a text row below a complete header row.
CleanSheetFrom(top, data, ex, fix, cat) ==
    IF HeaderIdx(top) = {} THEN <<>>
    ELSE LET header == CHOOSE i \in HeaderIdx(top) : \A o \in HeaderIdx(top) : i <= o
             columns == Range(top[header])
         IN  IF ~(RequiredColumns \subseteq columns) THEN <<>>
             ELSE CleanSheet(data, ex, fix, cat)

\* state.get(key, {}).get("path"): "AttributeError" when the key is there
\* with the value None, "None" when the key is not there, else the path
PathOf(state, key) ==
    CASE state[key] = "none" -> "AttributeError"
      [] state[key] = "missing" -> "None"
      [] state[key] = "file" -> "path"

\* the result display at the end of the script
ShowsTables(keys) == "comp_df" \in keys /\ "summary_df" \in keys

\* the page is opened: the state is the one of load_state, or one made by
\* another page, which has none of the three keys
InitPage ==
    /\ pc = "page"
    /\ \/ file_state = [k \in Slots |-> "none"]
       \/ file_state = [k \in Slots |-> "missing"]
    /\ prev_top = <<>> /\ curr_top = <<>>
    /\ session_keys = {} /\ event = "none" /\ fault = "none"
    /\ message = "none" /\ displayed = FALSE
    /\ AlertIdle /\ SalesIdle /\ ItemIdle /\ PivotIdle /\ ExtractIdle /\ RolloverIdle

\* a file is put into an uploader: save_file_and_update_state, then the
\* rest of the script without the button
Upload(slot) ==
    /\ file_state' = [file_state EXCEPT ![slot] = "file"]
    /\ CASE slot = "prev_file" ->
              /\ prev_top' \in TopLayouts /\ prev_sheet_df' \in PageData
              /\ UNCHANGED <<curr_top, curr_sheet_df, category_map>>
         [] slot = "curr_file" ->
              /\ curr_top' \in TopLayouts /\ curr_sheet_df' \in PageData
              /\ UNCHANGED <<prev_top, prev_sheet_df, category_map>>
         [] slot = "helper_file" ->
              /\ category_map' = [k \in {"0001"} |-> "X"]
              /\ UNCHANGED <<prev_top, prev_sheet_df, curr_top, curr_sheet_df>>
    /\ event' = "upload" /\ fault' = "none" /\ message' = "none"
    /\ displayed' = ShowsTables(session_keys)
    /\ UNCHANGED <<pc, exclude_codes, fix_sales_map, session_keys,
                   prev_clean, curr_clean, comp_df, summary_df>>
    /\ UNCHANGED <<alertVars, itemVars, pivotVars, extractVars, rolloverVars>>

\* the steps of a run in which an exception may be raised: reading the
\* files and the maps, clean_sheet, compare_years, summarize_by_category
Steps == {"read", "clean", "compare", "summarize"}

\* the button 分析実行; f is the step that raises in this run, "none" if
\* none does
PressRun(f) ==
    /\ event' = "run"
    /\ IF \E k \in Slots : PathOf(file_state, k) = "AttributeError"
       THEN /\ f = "none" /\ fault' = "none"
            /\ message' = "unhandled error" /\ displayed' = FALSE
            /\ UNCHANGED <<session_keys, prev_clean, curr_clean, comp_df, summary_df>>
       ELSE IF \E k \in Slots : PathOf(file_state, k) = "None"
       THEN /\ f = "none" /\ fault' = "none"
            /\ message' = "info" /\ displayed' = ShowsTables(session_keys)
            /\ UNCHANGED <<session_keys, prev_clean, curr_clean, comp_df, summary_df>>
       ELSE IF f \in {"read", "clean"}
       THEN /\ fault' = f
            /\ message' = "exception" /\ displayed' = ShowsTables(session_keys)
            /\ UNCHANGED <<session_keys, prev_clean, curr_clean, comp_df, summary_df>>
       ELSE \E p \in {CleanSheetFrom(prev_top, prev_sheet_df, exclude_codes,
                                     fix_sales_map, category_map)} :
            \E c \in {CleanSheetFrom(curr_top, curr_sheet_df, exclude_codes,
                                     fix_sales_map, category_map)} :
               IF p = <<>> \/ c = <<>>
               THEN /\ f = "none" /\ fault' = "none"
                    /\ message' = "error" /\ displayed' = FALSE
                    /\ UNCHANGED <<session_keys, prev_clean, curr_clean, comp_df,
                                   summary_df>>
               ELSE /\ fault' = f
                    /\ prev_clean' = p /\ curr_clean' = c
                    /\ IF f = "compare"
                       THEN /\ session_keys' = session_keys \cup {"prev_clean", "curr_clean"}
                            /\ UNCHANGED <<comp_df, summary_df>>
                            /\ message' = "exception"
                            /\ displayed' = ShowsTables(session_keys')
                       ELSE IF f = "summarize"
                       THEN /\ comp_df' = CompareYears(p, c)
                            /\ session_keys' = session_keys
                                  \cup {"prev_clean", "curr_clean", "comp_df"}
                            /\ UNCHANGED summary_df
                            /\ message' = "exception"
                            /\ displayed' = ShowsTables(session_keys')
                       ELSE /\ comp_df' = CompareYears(p, c)
                            /\ summary_df' = SummarizeByCategory(comp_df')
                            /\ session_keys' = {"prev_clean", "curr_clean", "comp_df",
                                                "summary_df"}
                            /\ message' = "none" /\ displayed' = TRUE
    /\ UNCHANGED <<pc, file_state, prev_top, curr_top, prev_sheet_df, curr_sheet_df,
                   exclude_codes, fix_sales_map, category_map>>
    /\ UNCHANGED <<alertVars, itemVars, pivotVars, extractVars, rolloverVars>>

NextPage ==
    \/ \E f \in Steps \cup {"none"} : PressRun(f)
    \/ \E slot \in Slots : Upload(slot)

SpecPage == InitPage /\ [][NextPage]_vars

AllFilesSet == \A k \in Slots : file_state[k] = "file"

\* no row of the sheet top holds the text 得意先コード
NoHeaderRow(top) ==
    \A i \in 1..Len(top) : \A cell \in Range(top[i]) : ~ContainsCodeHeader(cell)

\* the first row that holds the text 得意先コード lacks a required column
MissingColumn(top) ==
    \E i \in 1..Len(top) :
        /\ \E cell \in Range(top[i]) : ContainsCodeHeader(cell)
        /\ \A j \in 1..(i - 1) : \A cell \in Range(top[j]) : ~ContainsCodeHeader(cell)
        /\ \E col \in RequiredColumns : col \notin Range(top[i])

Unusable(top) == NoHeaderRow(top) \/ MissingColumn(top)

\* C14: the snapshot builder returns an empty result whenever the header row
\* cannot be found or a required column is missing, and the run then shows
\* an error and stops: nothing is computed, stored or displayed for it.
C14_UnusableInputHalts ==
    [][(/\ event' = "run" /\ fault' = "none" /\ AllFilesSet
        /\ (Unusable(prev_top) \/ Unusable(curr_top))) =>
          /\ Unusable(prev_top) =>
                CleanSheetFrom(prev_top, prev_sheet_df, exclude_codes,
                               fix_sales_map, category_map) = <<>>
          /\ Unusable(curr_top) =>
                CleanSheetFrom(curr_top, curr_sheet_df, exclude_codes,
                               fix_sales_map, category_map) = <<>>
          /\ message' = "error"
          /\ displayed' = FALSE
          /\ UNCHANGED <<session_keys, prev_clean, curr_clean, comp_df, summary_df>>
      ]_vars

\* a run stopped on a prior-year sheet whose header row lacks 純売上額, the
\* current-year sheet being usable, with the tables of an earlier run stored
C14_Witness ==
    /\ event = "run" /\ fault = "none" /\ message = "error" /\ AllFilesSet
    /\ MissingColumn(prev_top) /\ ~Unusable(curr_top)
    /\ prev_sheet_df /= <<>> /\ curr_sheet_df /= <<>>
    /\ ShowsTables(session_keys) /\ ~displayed

\* C16: when a step of a run raises an exception the run ends with the
\* failure shown, nothing that is stored changes, and so the tables on
\* display are never those of the failed run nor a mixture with an earlier
\* run's.
C16_FailedRunLeavesNoTrace ==
    [][(event' = "run" /\ fault' /= "none") =>
          /\ message' = "exception"
          /\ UNCHANGED <<session_keys, prev_clean, curr_clean, comp_df, summary_df>>
      ]_vars

\* C18: when a required file slot is unset, the initial state included,
\* pressing the button ends with the message that files are missing: no
\* unhandled error and nothing computed or stored.
C18_UnsetSlotInfo ==
    (event = "run" /\ ~AllFilesSet) => message = "info"

----------------------------------------------------------------------------
(* pages/alert.py: the page: uploaders, save_file, the roll-over button *)

Labels == {"week1", "week2", "week3", "helper"}
Weeks == {"week1", "week2", "week3"}
Uploads == {"f1", "f2"}        \* the files a user may put into an uploader

\* the four save_file calls of a script run: every uploader that holds a
\* file writes it to uploaded_files/<label>.xlsx and sets the entry of its
\* label to that path
SavedState(state, h) ==
    [l \in Labels |-> IF h[l] /= "none" THEN l ELSE state[l]]

SavedDisk(d, h) ==
    [l \in Labels |-> IF h[l] /= "none" THEN h[l] ELSE d[l]]

\* the roll-over: week1 takes the entry of week2, week2 that of week3
RollOver(state) ==
    [state EXCEPT !["week1"] = state["week2"],
                  !["week2"] = state["week3"],
                  !["week3"] = "none"]

\* the content read through the entry of a label
Resolved(state, d, l) == IF state[l] = "none" THEN "none" ELSE d[state[l]]

InitRollover ==
    /\ pc = "page"
    /\ slot_state = [l \in Labels |-> "none"]
    /\ disk = [l \in Labels |-> "none"]
    /\ held = [l \in Labels |-> "none"]
    /\ event = "none"
    /\ file_state = <<>> /\ prev_top = <<>> /\ curr_top = <<>>
    /\ session_keys = {} /\ fault = "none" /\ message = "none"
    /\ displayed = FALSE
    /\ AlertIdle /\ SalesIdle /\ ItemIdle /\ PivotIdle /\ ExtractIdle

RolloverFrame ==
    /\ UNCHANGED <<pc, file_state, prev_top, curr_top, session_keys, fault,
                   message, displayed>>
    /\ UNCHANGED <<alertVars, salesVars, itemVars, pivotVars, extractVars>>

\* a file is put into the uploader of a label; the script runs
SelectFile(l, f) ==
    /\ held' = [held EXCEPT ![l] = f]
    /\ slot_state' = SavedState(slot_state, held')
    /\ disk' = SavedDisk(disk, held')
    /\ event' = l
    /\ RolloverFrame

\* the button 繰り上げ処理; the script runs the save_file calls first
PressRollover ==
    /\ slot_state' = RollOver(SavedState(slot_state, held))
    /\ disk' = SavedDisk(disk, held)
    /\ event' = "rollover"
    /\ UNCHANGED held
    /\ RolloverFrame

\* the page is reloaded, as the roll-over message asks: the uploaders are
\* empty and the state is read back from state.json
Reload ==
    /\ held' = [l \in Labels |-> "none"]
    /\ event' = "reload"
    /\ UNCHANGED <<slot_state, disk>>
    /\ RolloverFrame

NextRollover ==
    \/ \E l \in Labels : \E f \in Uploads : SelectFile(l, f)
    \/ PressRollover
    \/ Reload

SpecRollover == InitRollover /\ [][NextRollover]_vars

\* C17: the roll-over makes week1 hold what week2 held and week2 what week3
\* held, and empties week3; a later upload into week2 or week3 does not
\* change the content that week1 (or week2) resolves to; two labels never
\* name the same stored file.
C17_RolloverKeepsContent ==
    [][/\ event' = "rollover" =>
             /\ Resolved(slot_state', disk', "week1") = Resolved(slot_state, disk, "week2")
             /\ Resolved(slot_state', disk', "week2") = Resolved(slot_state, disk, "week3")
             /\ Resolved(slot_state', disk', "week3") = "none"
       /\ event' \in {"week2", "week3"} =>
             Resolved(slot_state', disk', "week1") = Resolved(slot_state, disk, "week1")
       /\ event' = "week3" =>
             Resolved(slot_state', disk', "week2") = Resolved(slot_state, disk, "week2")
       /\ \A a, b \in Weeks :
             (a /= b /\ slot_state'[a] /= "none") => slot_state'[a] /= slot_state'[b]
      ]_vars
====
